---- MODULE Spec2Model ----
(***************************************************************************)
(* Model of groupcache's two local primitives:                             *)
(*   - singleflight.Group.Do  (src/unnamed/part_000): duplicate call       *)
(*     suppression, modelled one goroutine step at a time;                 *)
(*   - lru.Cache (src/lru/lru.go): the LRU cache, one action per public    *)
(*     operation.                                                          *)
(***************************************************************************)
EXTENDS Integers, Sequences, FiniteSets, TLC

\* ---------------------------------------------------------------- bounds
NumProcs == 3        \* goroutines calling Group.Do
NumKeys == 2         \* distinct keys passed to Do
MaxDo == 3           \* total number of Do invocations in a behaviour
MaxDoFair == 2       \* ... and in a behaviour of the fair specification
MaxVal == 1          \* fn returns a value in 1..MaxVal, or an error

NumCKeys == 3       \* distinct keys given to the cache
MaxCVal == 2        \* cache values are 1..MaxCVal
MaxCap == 2         \* MaxEntries given to New is in -1..MaxCap

Procs == 1..NumProcs
Keys == 1..NumKeys
CallIds == 1..MaxDo  \* one call record is allocated per Do at most

\* ------------------------------------------------------ program constants
NilVal == 0          \* zero value of call.val (nil interface)
NoCall == 0          \* nil *call held in a goroutine's local c
Unlocked == 0        \* zero value of sync.Mutex: nobody holds it
NoErr == "nil"       \* zero value of call.err
ErrFn == "err"       \* the error a failing fn returns

\* What a caller-supplied fn may return: (value, nil) or (nil, error).
FnResults ==
  {[val |-> v, err |-> NoErr] : v \in 1..MaxVal} \cup {[val |-> NilVal, err |-> ErrFn]}

\* type call struct { wg; val; err }, freshly allocated by new(call)
NewCall == [wg |-> 0, val |-> NilVal, err |-> NoErr]

CKeys == 1..NumCKeys
CVals == 1..MaxCVal
ElemIds == 1..NumCKeys   \* list elements alive at once: one per key
NoEntry == [key |-> 0, value |-> 0]   \* a list element that is not allocated

VARIABLES
  \* ---- Cache (lru)
  MaxEntries,  \* c.MaxEntries
  OnEvicted,   \* c.OnEvicted != nil
  isNil,       \* c.cache == nil (and c.ll == nil): zero value, or after Clear
  ll,          \* c.ll: the list, front first, as a sequence of elements
  cache,       \* c.cache: function from the mapped keys to elements
  elems,       \* heap of list elements: element -> its *entry (key, value)
  \* ---- history of the Cache (observations only)
  op,          \* the last public operation, its arguments and its result
  evicted,     \* the OnEvicted calls made by the last operation, in order
  removed,     \* the entries the last operation took out, with their stamps
  touch,       \* key -> rank of its last touch among the present keys
               \* (1: touched longest ago; 0: not present)
  \* ---- Group (singleflight)
  mu,        \* g.mu: Unlocked or the goroutine holding it
  mIsNil,    \* g.m == nil (before lazy initialisation)
  m,         \* g.m: function from the registered keys to call records
  calls,     \* heap of call records: CallIds -> call
  nCalls,    \* number of call records allocated so far
  pc,        \* each goroutine's position inside Do
  key,       \* each goroutine's argument key
  c,         \* each goroutine's local c (*call)
  fnret,     \* the pair fn() returned, before it is stored into c
  \* ---- history of the Group (observations only, never read by Do)
  nDo,       \* number of Do invocations so far
  hist,      \* per goroutine: what its current (or last) Do saw and returned
  callHist,  \* per call record: what happened to it
  keyHist    \* per key: the Do calls made for it, and whether two overlapped

gvars == <<mu, mIsNil, m, calls, nCalls, pc, key, c, fnret, nDo, hist, callHist, keyHist>>

cvars == <<MaxEntries, OnEvicted, isNil, ll, cache, elems, op, evicted, removed, touch>>

vars == <<gvars, cvars>>

\* ---------------------------------------------------------- history data
NoHist ==
  [returned |-> FALSE, nfn |-> 0, ret |-> [val |-> NilVal, err |-> NoErr],
   ov |-> {}, doneAtInv |-> {}, removedAtInv |-> {}, during |-> {}]

NoCallHist ==
  [key |-> 0, fnStarted |-> FALSE, fnReturned |-> FALSE,
   fnRes |-> [val |-> NilVal, err |-> NoErr], nval |-> 0, nerr |-> 0,
   signalled |-> FALSE, removed |-> FALSE, lateWrite |-> FALSE]

\* The goroutines that are inside Do.
InProgress == {p \in Procs : pc[p] # "idle"}

\* ------------------------------------------------------------------ Init
GroupInit ==
  /\ mu = Unlocked
  /\ mIsNil = TRUE
  /\ m = << >>
  /\ calls = [r \in CallIds |-> NewCall]
  /\ nCalls = 0
  /\ pc = [p \in Procs |-> "idle"]
  /\ key = [p \in Procs |-> 1]
  /\ c = [p \in Procs |-> NoCall]
  /\ fnret = [p \in Procs |-> [val |-> NilVal, err |-> NoErr]]
  /\ nDo = 0
  /\ hist = [p \in Procs |-> NoHist]
  /\ callHist = [r \in CallIds |-> NoCallHist]
  /\ keyHist = [k \in Keys |-> [doCount |-> 0, overlapped |-> FALSE]]

\* ------------------------------------------------------------ Group.Do
\* A goroutine calls g.Do(k, fn): it has entered Do and is about to Lock.
Invoke(p, k) ==
  /\ pc[p] = "idle"
  /\ nDo < MaxDo
  /\ nDo' = nDo + 1
  /\ key' = [key EXCEPT ![p] = k]
  /\ c' = [c EXCEPT ![p] = NoCall]
  /\ pc' = [pc EXCEPT ![p] = "lock"]
  /\ hist' = [q \in Procs |->
       IF q = p
         THEN [NoHist EXCEPT
                 !.ov = {j \in InProgress : key[j] = k},
                 !.doneAtInv = {r \in 1..nCalls : callHist[r].fnReturned},
                 !.removedAtInv = {r \in 1..nCalls : callHist[r].removed}]
         ELSE IF q \in InProgress /\ key[q] = k
                THEN [hist[q] EXCEPT !.ov = @ \cup {p}, !.during = @ \ {p}]
                ELSE [hist[q] EXCEPT !.during = @ \ {p}]]
  /\ keyHist' = [keyHist EXCEPT
       ![k].doCount = @ + 1,
       ![k].overlapped = @ \/ (\E j \in InProgress : key[j] = k)]
  /\ UNCHANGED <<mu, mIsNil, m, calls, nCalls, fnret, callHist>>

\* line 48: g.mu.Lock()
Lock(p) ==
  /\ pc[p] = "lock"
  /\ mu = Unlocked
  /\ mu' = p
  /\ pc' = [pc EXCEPT ![p] = "lookup"]
  /\ UNCHANGED <<mIsNil, m, calls, nCalls, key, c, fnret, nDo, hist, callHist, keyHist>>

\* The executors whose record for key k is registered at this instant:
\* invocations that ran Register and have not yet run the delete of line 72.
RegisteredExecs(k) ==
  {j \in Procs : /\ key[j] = k
                 /\ pc[j] \in {"fn", "storeval", "storeerr", "done", "lock2", "delete"}}

\* LookupHit that also deletes the record it found, as the executor's line
\* 72 does.
LookupHit_Delete(p) ==
  /\ pc[p] = "lookup"
  /\ mu = p
  /\ key[p] \in DOMAIN m
  /\ mIsNil' = FALSE
  /\ c' = [c EXCEPT ![p] = m[key[p]]]
  /\ m' = [k \in DOMAIN m \ {key[p]} |-> m[k]]
  /\ mu' = Unlocked
  /\ pc' = [pc EXCEPT ![p] = "wait"]
  /\ hist' = [hist EXCEPT ![p].during = RegisteredExecs(key[p])]
  /\ UNCHANGED <<calls, nCalls, key, fnret, nDo, callHist, keyHist>>

\* lines 49-61, the key is present: lazy init, c = g.m[key], Unlock; the
\* goroutine is now at c.wg.Wait().
LookupHit(p) ==
  /\ pc[p] = "lookup"
  /\ mu = p
  /\ key[p] \in DOMAIN m
  /\ mIsNil' = FALSE
  /\ c' = [c EXCEPT ![p] = m[key[p]]]
  /\ mu' = Unlocked
  /\ pc' = [pc EXCEPT ![p] = "wait"]
  /\ hist' = [hist EXCEPT ![p].during = RegisteredExecs(key[p])]
  /\ UNCHANGED <<m, calls, nCalls, key, fnret, nDo, callHist, keyHist>>

\* Register without line 65: the record is never put into g.m.
Register_NoStore(p) ==
  /\ pc[p] = "lookup"
  /\ mu = p
  /\ key[p] \notin DOMAIN m
  /\ mIsNil' = FALSE
  /\ nCalls' = nCalls + 1
  /\ calls' = [calls EXCEPT ![nCalls + 1] = [NewCall EXCEPT !.wg = 1]]
  /\ c' = [c EXCEPT ![p] = nCalls + 1]
  /\ m' = m
  /\ mu' = Unlocked
  /\ pc' = [pc EXCEPT ![p] = "fn"]
  /\ hist' = [hist EXCEPT ![p].nfn = @ + 1,
                          ![p].during = RegisteredExecs(key[p])]
  /\ callHist' = [callHist EXCEPT ![nCalls + 1] =
                    [NoCallHist EXCEPT !.key = key[p], !.fnStarted = TRUE]]
  /\ UNCHANGED <<key, fnret, nDo, keyHist>>

\* Register without the test of line 55: a new record whether or not the key
\* is present.
Register_Always(p) ==
  /\ pc[p] = "lookup"
  /\ mu = p
  /\ mIsNil' = FALSE
  /\ nCalls' = nCalls + 1
  /\ calls' = [calls EXCEPT ![nCalls + 1] = [NewCall EXCEPT !.wg = 1]]
  /\ c' = [c EXCEPT ![p] = nCalls + 1]
  /\ m' = [k \in DOMAIN m \cup {key[p]} |-> IF k = key[p] THEN nCalls + 1 ELSE m[k]]
  /\ mu' = Unlocked
  /\ pc' = [pc EXCEPT ![p] = "fn"]
  /\ hist' = [hist EXCEPT ![p].nfn = @ + 1,
                          ![p].during = RegisteredExecs(key[p])]
  /\ callHist' = [callHist EXCEPT ![nCalls + 1] =
                    [NoCallHist EXCEPT !.key = key[p], !.fnStarted = TRUE]]
  /\ UNCHANGED <<key, fnret, nDo, keyHist>>

\* Register without the Unlock of line 66: fn runs with the mutex held.
Register_HoldLock(p) ==
  /\ pc[p] = "lookup"
  /\ mu = p
  /\ key[p] \notin DOMAIN m
  /\ mIsNil' = FALSE
  /\ nCalls' = nCalls + 1
  /\ calls' = [calls EXCEPT ![nCalls + 1] = [NewCall EXCEPT !.wg = 1]]
  /\ c' = [c EXCEPT ![p] = nCalls + 1]
  /\ m' = [k \in DOMAIN m \cup {key[p]} |-> IF k = key[p] THEN nCalls + 1 ELSE m[k]]
  /\ mu' = mu
  /\ pc' = [pc EXCEPT ![p] = "fn"]
  /\ hist' = [hist EXCEPT ![p].nfn = @ + 1,
                          ![p].during = RegisteredExecs(key[p])]
  /\ callHist' = [callHist EXCEPT ![nCalls + 1] =
                    [NoCallHist EXCEPT !.key = key[p], !.fnStarted = TRUE]]
  /\ UNCHANGED <<key, fnret, nDo, keyHist>>

\* Register without the c.wg.Add(1) of line 64: the barrier starts open.
Register_NoWgAdd(p) ==
  /\ pc[p] = "lookup"
  /\ mu = p
  /\ key[p] \notin DOMAIN m
  /\ mIsNil' = FALSE
  /\ nCalls' = nCalls + 1
  /\ calls' = [calls EXCEPT ![nCalls + 1] = NewCall]
  /\ c' = [c EXCEPT ![p] = nCalls + 1]
  /\ m' = [k \in DOMAIN m \cup {key[p]} |-> IF k = key[p] THEN nCalls + 1 ELSE m[k]]
  /\ mu' = Unlocked
  /\ pc' = [pc EXCEPT ![p] = "fn"]
  /\ hist' = [hist EXCEPT ![p].nfn = @ + 1,
                          ![p].during = RegisteredExecs(key[p])]
  /\ callHist' = [callHist EXCEPT ![nCalls + 1] =
                    [NoCallHist EXCEPT !.key = key[p], !.fnStarted = TRUE]]
  /\ UNCHANGED <<key, fnret, nDo, keyHist>>

\* lines 49-66, the key is absent: lazy init, c := new(call), c.wg.Add(1),
\* g.m[key] = c, Unlock; the goroutine now calls fn (line 68).
Register(p) ==
  /\ pc[p] = "lookup"
  /\ mu = p
  /\ key[p] \notin DOMAIN m
  /\ mIsNil' = FALSE
  /\ nCalls' = nCalls + 1
  /\ calls' = [calls EXCEPT ![nCalls + 1] = [NewCall EXCEPT !.wg = 1]]
  /\ c' = [c EXCEPT ![p] = nCalls + 1]
  /\ m' = [k \in DOMAIN m \cup {key[p]} |-> IF k = key[p] THEN nCalls + 1 ELSE m[k]]
  /\ mu' = Unlocked
  /\ pc' = [pc EXCEPT ![p] = "fn"]
  /\ hist' = [hist EXCEPT ![p].nfn = @ + 1,
                          ![p].during = RegisteredExecs(key[p])]
  /\ callHist' = [callHist EXCEPT ![nCalls + 1] =
                    [NoCallHist EXCEPT !.key = key[p], !.fnStarted = TRUE]]
  /\ UNCHANGED <<key, fnret, nDo, keyHist>>

\* line 68, right-hand side: fn() returns the pair res.
FnReturn(p, res) ==
  /\ pc[p] = "fn"
  /\ fnret' = [fnret EXCEPT ![p] = res]
  /\ pc' = [pc EXCEPT ![p] = "storeval"]
  /\ callHist' = [callHist EXCEPT ![c[p]].fnReturned = TRUE, ![c[p]].fnRes = res]
  /\ UNCHANGED <<mu, mIsNil, m, calls, nCalls, key, c, nDo, hist, keyHist>>

\* line 68, first assignment: c.val = <value fn returned>
StoreVal(p) ==
  /\ pc[p] = "storeval"
  /\ calls' = [calls EXCEPT ![c[p]].val = fnret[p].val]
  /\ pc' = [pc EXCEPT ![p] = "storeerr"]
  /\ callHist' = [callHist EXCEPT ![c[p]].nval = @ + 1,
                                  ![c[p]].lateWrite = @ \/ callHist[c[p]].signalled]
  /\ UNCHANGED <<mu, mIsNil, m, nCalls, key, c, fnret, nDo, hist, keyHist>>

\* StoreErr that drops the error: c.err keeps its zero value.
StoreErr_Dropped(p) ==
  /\ pc[p] = "storeerr"
  /\ calls' = calls
  /\ pc' = [pc EXCEPT ![p] = "done"]
  /\ callHist' = [callHist EXCEPT ![c[p]].nerr = @ + 1,
                                  ![c[p]].lateWrite = @ \/ callHist[c[p]].signalled]
  /\ UNCHANGED <<mu, mIsNil, m, nCalls, key, c, fnret, nDo, hist, keyHist>>

\* line 68, second assignment: c.err = <error fn returned>
StoreErr(p) ==
  /\ pc[p] = "storeerr"
  /\ calls' = [calls EXCEPT ![c[p]].err = fnret[p].err]
  /\ pc' = [pc EXCEPT ![p] = "done"]
  /\ callHist' = [callHist EXCEPT ![c[p]].nerr = @ + 1,
                                  ![c[p]].lateWrite = @ \/ callHist[c[p]].signalled]
  /\ UNCHANGED <<mu, mIsNil, m, nCalls, key, c, fnret, nDo, hist, keyHist>>

\* WgDone that never signals: the counter stays at one.
WgDone_NoSignal(p) ==
  /\ pc[p] = "done"
  /\ calls' = calls
  /\ pc' = [pc EXCEPT ![p] = "lock2"]
  /\ callHist' = callHist
  /\ UNCHANGED <<mu, mIsNil, m, nCalls, key, c, fnret, nDo, hist, keyHist>>

\* line 69: c.wg.Done()
WgDone(p) ==
  /\ pc[p] = "done"
  /\ calls' = [calls EXCEPT ![c[p]].wg = @ - 1]
  /\ pc' = [pc EXCEPT ![p] = "lock2"]
  /\ callHist' = [callHist EXCEPT ![c[p]].signalled = TRUE]
  /\ UNCHANGED <<mu, mIsNil, m, nCalls, key, c, fnret, nDo, hist, keyHist>>

\* line 71: g.mu.Lock()
Lock2(p) ==
  /\ pc[p] = "lock2"
  /\ mu = Unlocked
  /\ mu' = p
  /\ pc' = [pc EXCEPT ![p] = "delete"]
  /\ UNCHANGED <<mIsNil, m, calls, nCalls, key, c, fnret, nDo, hist, callHist, keyHist>>

\* DeleteUnlock without line 72: the record stays in g.m.
DeleteUnlock_NoDelete(p) ==
  /\ pc[p] = "delete"
  /\ mu = p
  /\ m' = m
  /\ mu' = Unlocked
  /\ pc' = [pc EXCEPT ![p] = "ret"]
  /\ callHist' = [callHist EXCEPT ![c[p]].removed = TRUE]
  /\ UNCHANGED <<mIsNil, calls, nCalls, key, c, fnret, nDo, hist, keyHist>>

\* lines 72-73: delete(g.m, key); g.mu.Unlock()
DeleteUnlock(p) ==
  /\ pc[p] = "delete"
  /\ mu = p
  /\ m' = [k \in DOMAIN m \ {key[p]} |-> m[k]]
  /\ mu' = Unlocked
  /\ pc' = [pc EXCEPT ![p] = "ret"]
  /\ callHist' = [callHist EXCEPT ![c[p]].removed = TRUE]
  /\ UNCHANGED <<mIsNil, calls, nCalls, key, c, fnret, nDo, hist, keyHist>>

\* line 75: return c.val, c.err   (the executor)
ReturnExec(p) ==
  /\ pc[p] = "ret"
  /\ pc' = [pc EXCEPT ![p] = "idle"]
  /\ hist' = [hist EXCEPT ![p].returned = TRUE,
                          ![p].ret = [val |-> calls[c[p]].val, err |-> calls[c[p]].err]]
  /\ UNCHANGED <<mu, mIsNil, m, calls, nCalls, key, c, fnret, nDo, callHist, keyHist>>

\* WgWait that does not block.
WgWait_NoWait(p) ==
  /\ pc[p] = "wait"
  /\ pc' = [pc EXCEPT ![p] = "waitret"]
  /\ UNCHANGED <<mu, mIsNil, m, calls, nCalls, key, c, fnret, nDo, hist, callHist, keyHist>>

\* line 59: c.wg.Wait() returns once the counter is zero
WgWait(p) ==
  /\ pc[p] = "wait"
  /\ calls[c[p]].wg = 0
  /\ pc' = [pc EXCEPT ![p] = "waitret"]
  /\ UNCHANGED <<mu, mIsNil, m, calls, nCalls, key, c, fnret, nDo, hist, callHist, keyHist>>

\* line 60: return c.val, c.err   (a waiter)
ReturnWait(p) ==
  /\ pc[p] = "waitret"
  /\ pc' = [pc EXCEPT ![p] = "idle"]
  /\ hist' = [hist EXCEPT ![p].returned = TRUE,
                          ![p].ret = [val |-> calls[c[p]].val, err |-> calls[c[p]].err]]
  /\ UNCHANGED <<mu, mIsNil, m, calls, nCalls, key, c, fnret, nDo, callHist, keyHist>>

\* ================================================================ Cache
\* The cache as one value, so that the operations compose as in the source.
CacheState ==
  [MaxEntries |-> MaxEntries, OnEvicted |-> OnEvicted, isNil |-> isNil,
   ll |-> ll, cache |-> cache, elems |-> elems,
   evicted |-> << >>, removed |-> << >>, touch |-> touch]

Range(f) == {f[x] : x \in DOMAIN f}

\* The times of the last touches, renumbered 1..n in the same order, after key
\* k is touched now (inserted by Add, updated by Add, or hit by Get) ...
Touched(t, k) ==
  LET n == Cardinality({x \in CKeys : t[x] > 0}) IN
    IF t[k] = 0
      THEN [t EXCEPT ![k] = n + 1]
      ELSE [x \in CKeys |-> IF x = k THEN n ELSE IF t[x] > t[k] THEN t[x] - 1 ELSE t[x]]

\* ... and after key k is taken out.
Untouched(t, k) ==
  [x \in CKeys |-> IF x = k THEN 0 ELSE IF t[x] > t[k] THEN t[x] - 1 ELSE t[x]]

\* container/list: the operations the cache uses
PushFront(l, e) == <<e>> \o l
ListRemove(l, e) == SelectSeq(l, LAMBDA x : x # e)
MoveToFront(l, e) == IF e \in Range(l) THEN <<e>> \o ListRemove(l, e) ELSE l
Back(l) == l[Len(l)]

\* The element a PushFront allocates for key k: an element not in the list
\* (the k-th one when it is free, so that equal caches are equal states).
FreshElem(s, k) ==
  IF k \notin Range(s.ll) THEN k
  ELSE CHOOSE e \in ElemIds : e \notin Range(s.ll) /\ \A x \in ElemIds \ Range(s.ll) : e <= x

MapDelete(f, k) == [x \in DOMAIN f \ {k} |-> f[x]]
MapPut(f, k, v) == [x \in DOMAIN f \cup {k} |-> IF x = k THEN v ELSE f[x]]

\* New(maxEntries), or the zero value &Cache{MaxEntries: n} when zero is TRUE
New(maxEntries, onEvicted, zero) ==
  [MaxEntries |-> maxEntries, OnEvicted |-> onEvicted, isNil |-> zero,
   ll |-> << >>, cache |-> << >>, elems |-> [e \in ElemIds |-> NoEntry],
   evicted |-> << >>, removed |-> << >>,
   touch |-> [k \in CKeys |-> 0]]

\* removeElement without the delete of line 120: the key stays mapped.
removeElement_KeepMap(s, e) ==
  LET kv == s.elems[e] IN
    [s EXCEPT
       !.ll = ListRemove(s.ll, e),
       !.evicted = IF s.OnEvicted THEN Append(@, kv) ELSE @,
       !.removed = Append(@, [key |-> kv.key, value |-> kv.value, touch |-> s.touch[kv.key]]),
       !.touch = Untouched(s.touch, kv.key)]

\* func (c *Cache) removeElement(e *list.Element)
removeElement(s, e) ==
  LET kv == s.elems[e] IN
    [s EXCEPT
       !.ll = ListRemove(s.ll, e),
       !.cache = MapDelete(s.cache, kv.key),
       !.elems = [s.elems EXCEPT ![e] = NoEntry],
       !.evicted = IF s.OnEvicted THEN Append(@, kv) ELSE @,
       !.removed = Append(@, [key |-> kv.key, value |-> kv.value, touch |-> s.touch[kv.key]]),
       !.touch = Untouched(s.touch, kv.key)]

\* func (c *Cache) RemoveOldest()
RemoveOldest(s) ==
  IF s.isNil THEN s
  ELSE IF Len(s.ll) > 0 THEN removeElement(s, Back(s.ll))
  ELSE s

\* Add that evicts one entry too late (Len > MaxEntries + 1).
Add_OffByOne(s0, k, v) ==
  LET s == IF s0.isNil THEN [s0 EXCEPT !.isNil = FALSE, !.cache = << >>, !.ll = << >>] ELSE s0 IN
    IF k \in DOMAIN s.cache
      THEN LET ee == s.cache[k] IN
             [s EXCEPT !.ll = MoveToFront(s.ll, ee),
                       !.elems = [s.elems EXCEPT ![ee].value = v],
                       !.touch = Touched(s.touch, s.elems[ee].key)]
      ELSE LET ele == FreshElem(s, k)
               s1 == [s EXCEPT !.ll = PushFront(s.ll, ele),
                               !.elems = [s.elems EXCEPT ![ele] = [key |-> k, value |-> v]],
                               !.cache = MapPut(s.cache, k, ele),
                               !.touch = Touched(s.touch, k)]
           IN IF s1.MaxEntries # 0 /\ Len(s1.ll) > s1.MaxEntries + 1
                THEN RemoveOldest(s1)
                ELSE s1

\* Add that moves a present key to the front without storing the new value.
Add_NoUpdate(s0, k, v) ==
  LET s == IF s0.isNil THEN [s0 EXCEPT !.isNil = FALSE, !.cache = << >>, !.ll = << >>] ELSE s0 IN
    IF k \in DOMAIN s.cache
      THEN LET ee == s.cache[k] IN
             [s EXCEPT !.ll = MoveToFront(s.ll, ee),
                       !.touch = Touched(s.touch, s.elems[ee].key)]
      ELSE LET ele == FreshElem(s, k)
               s1 == [s EXCEPT !.ll = PushFront(s.ll, ele),
                               !.elems = [s.elems EXCEPT ![ele] = [key |-> k, value |-> v]],
                               !.cache = MapPut(s.cache, k, ele),
                               !.touch = Touched(s.touch, k)]
           IN IF s1.MaxEntries # 0 /\ Len(s1.ll) > s1.MaxEntries
                THEN RemoveOldest(s1)
                ELSE s1

\* Add that evicts as soon as the cache is full (Len >= MaxEntries).
Add_EvictsAtCap(s0, k, v) ==
  LET s == IF s0.isNil THEN [s0 EXCEPT !.isNil = FALSE, !.cache = << >>, !.ll = << >>] ELSE s0 IN
    IF k \in DOMAIN s.cache
      THEN LET ee == s.cache[k] IN
             [s EXCEPT !.ll = MoveToFront(s.ll, ee),
                       !.elems = [s.elems EXCEPT ![ee].value = v],
                       !.touch = Touched(s.touch, s.elems[ee].key)]
      ELSE LET ele == FreshElem(s, k)
               s1 == [s EXCEPT !.ll = PushFront(s.ll, ele),
                               !.elems = [s.elems EXCEPT ![ele] = [key |-> k, value |-> v]],
                               !.cache = MapPut(s.cache, k, ele),
                               !.touch = Touched(s.touch, k)]
           IN IF s1.MaxEntries # 0 /\ Len(s1.ll) >= s1.MaxEntries
                THEN RemoveOldest(s1)
                ELSE s1

\* Add without the lazy initialisation of lines 65-68: on a nil cache the
\* entry is not stored.
Add_NoLazyInit(s, k, v) ==
  IF s.isNil THEN s
  ELSE IF k \in DOMAIN s.cache
      THEN LET ee == s.cache[k] IN
             [s EXCEPT !.ll = MoveToFront(s.ll, ee),
                       !.elems = [s.elems EXCEPT ![ee].value = v],
                       !.touch = Touched(s.touch, s.elems[ee].key)]
      ELSE LET ele == FreshElem(s, k)
               s1 == [s EXCEPT !.ll = PushFront(s.ll, ele),
                               !.elems = [s.elems EXCEPT ![ele] = [key |-> k, value |-> v]],
                               !.cache = MapPut(s.cache, k, ele),
                               !.touch = Touched(s.touch, k)]
           IN IF s1.MaxEntries # 0 /\ Len(s1.ll) > s1.MaxEntries
                THEN RemoveOldest(s1)
                ELSE s1

\* func (c *Cache) Add(key Key, value interface{})
Add(s0, k, v) ==
  LET s == IF s0.isNil THEN [s0 EXCEPT !.isNil = FALSE, !.cache = << >>, !.ll = << >>] ELSE s0 IN
    IF k \in DOMAIN s.cache
      THEN LET ee == s.cache[k] IN
             [s EXCEPT !.ll = MoveToFront(s.ll, ee),
                       !.elems = [s.elems EXCEPT ![ee].value = v],
                       !.touch = Touched(s.touch, s.elems[ee].key)]
      ELSE LET ele == FreshElem(s, k)
               s1 == [s EXCEPT !.ll = PushFront(s.ll, ele),
                               !.elems = [s.elems EXCEPT ![ele] = [key |-> k, value |-> v]],
                               !.cache = MapPut(s.cache, k, ele),
                               !.touch = Touched(s.touch, k)]
           IN IF s1.MaxEntries # 0 /\ Len(s1.ll) > s1.MaxEntries
                THEN RemoveOldest(s1)
                ELSE s1

\* Get that does not move the element to the front.
Get_NoMove(s, k) ==
  IF s.isNil THEN s
  ELSE IF k \in DOMAIN s.cache
    THEN LET ele == s.cache[k] IN
           [s EXCEPT !.touch = Touched(s.touch, s.elems[ele].key)]
    ELSE s

\* Get that stores an entry with the zero value for a key it does not find.
Get_MissCreates(s, k) ==
  IF s.isNil THEN s
  ELSE IF k \in DOMAIN s.cache
    THEN LET ele == s.cache[k] IN
           [s EXCEPT !.ll = MoveToFront(s.ll, ele),
                     !.touch = Touched(s.touch, s.elems[ele].key)]
    ELSE LET ele == FreshElem(s, k) IN
           [s EXCEPT !.ll = PushFront(s.ll, ele),
                     !.elems = [s.elems EXCEPT ![ele] = [key |-> k, value |-> 0]],
                     !.cache = MapPut(s.cache, k, ele),
                     !.touch = Touched(s.touch, k)]

\* func (c *Cache) Get(key Key) (value interface{}, ok bool): the cache after
Get(s, k) ==
  IF s.isNil THEN s
  ELSE IF k \in DOMAIN s.cache
    THEN LET ele == s.cache[k] IN
           [s EXCEPT !.ll = MoveToFront(s.ll, ele),
                     !.touch = Touched(s.touch, s.elems[ele].key)]
    ELSE s

\* ... and the pair it returns (the zero value and false on a miss)
GetResult(s, k) ==
  IF s.isNil THEN [value |-> 0, ok |-> FALSE]
  ELSE IF k \in DOMAIN s.cache
    THEN [value |-> s.elems[s.cache[k]].value, ok |-> TRUE]
    ELSE [value |-> 0, ok |-> FALSE]

\* Remove that drops the entry without the OnEvicted call.
Remove_Silent(s, k) ==
  IF s.isNil THEN s
  ELSE IF k \in DOMAIN s.cache
    THEN [removeElement(s, s.cache[k]) EXCEPT !.evicted = << >>]
  ELSE s

\* func (c *Cache) Remove(key Key)
Remove(s, k) ==
  IF s.isNil THEN s
  ELSE IF k \in DOMAIN s.cache THEN removeElement(s, s.cache[k])
  ELSE s

\* func (c *Cache) Len() int
CacheLen(s) == IF s.isNil THEN 0 ELSE Len(s.ll)

\* Clear that stops the range loop after the first entry.
Clear_FirstOnly(s, order) ==
  [s EXCEPT
     !.evicted = IF s.OnEvicted
                   THEN [i \in 1..(IF Len(order) > 0 THEN 1 ELSE 0) |-> s.elems[s.cache[order[i]]]]
                   ELSE << >>,
     !.removed = [i \in 1..Len(order) |->
                    [key |-> s.elems[s.cache[order[i]]].key,
                     value |-> s.elems[s.cache[order[i]]].value,
                     touch |-> s.touch[s.elems[s.cache[order[i]]].key]]],
     !.ll = << >>,
     !.cache = << >>,
     !.isNil = TRUE,
     !.elems = [e \in ElemIds |-> NoEntry],
     !.touch = [k \in CKeys |-> 0]]

\* func (c *Cache) Clear(); order is the order in which range visits c.cache
Clear(s, order) ==
  [s EXCEPT
     !.evicted = IF s.OnEvicted
                   THEN [i \in 1..Len(order) |-> s.elems[s.cache[order[i]]]]
                   ELSE << >>,
     !.removed = [i \in 1..Len(order) |->
                    [key |-> s.elems[s.cache[order[i]]].key,
                     value |-> s.elems[s.cache[order[i]]].value,
                     touch |-> s.touch[s.elems[s.cache[order[i]]].key]]],
     !.ll = << >>,
     !.cache = << >>,
     !.isNil = TRUE,
     !.elems = [e \in ElemIds |-> NoEntry],
     !.touch = [k \in CKeys |-> 0]]

\* The orders in which a range over the map f can visit its keys.
Orders(f) ==
  {o \in [1..Cardinality(DOMAIN f) -> DOMAIN f] : \A i, j \in DOMAIN o : i # j => o[i] # o[j]}

\* The variables take the fields of s.
SetCache(s) ==
  /\ MaxEntries' = s.MaxEntries
  /\ OnEvicted' = s.OnEvicted
  /\ isNil' = s.isNil
  /\ ll' = s.ll
  /\ cache' = s.cache
  /\ elems' = s.elems
  /\ evicted' = s.evicted
  /\ removed' = s.removed
  /\ touch' = s.touch

NoOp == [name |-> "none", key |-> 0, value |-> 0, ret |-> 0, ok |-> FALSE]

CacheInit ==
  /\ \E n \in -1..MaxCap, cb \in BOOLEAN, zero \in BOOLEAN :
       \E s \in {New(n, cb, zero)} :
         /\ MaxEntries = s.MaxEntries
         /\ OnEvicted = s.OnEvicted
         /\ isNil = s.isNil
         /\ ll = s.ll
         /\ cache = s.cache
         /\ elems = s.elems
         /\ evicted = s.evicted
         /\ removed = s.removed
         /\ touch = s.touch
  /\ op = NoOp

\* c.Add(k, v); op.ok records the ok of line 69 (the key was present).
OpAdd(k, v) ==
  /\ \E s \in {Add(CacheState, k, v)} : SetCache(s)
  /\ op' = [NoOp EXCEPT !.name = "Add", !.key = k, !.value = v,
                        !.ok = (~isNil /\ k \in DOMAIN cache)]

OpGet(k) ==
  /\ \E s \in {Get(CacheState, k)} : SetCache(s)
  /\ \E r \in {GetResult(CacheState, k)} :
       op' = [NoOp EXCEPT !.name = "Get", !.key = k, !.ret = r.value, !.ok = r.ok]

OpRemove(k) ==
  /\ \E s \in {Remove(CacheState, k)} : SetCache(s)
  /\ op' = [NoOp EXCEPT !.name = "Remove", !.key = k]

OpRemoveOldest ==
  /\ \E s \in {RemoveOldest(CacheState)} : SetCache(s)
  /\ op' = [NoOp EXCEPT !.name = "RemoveOldest"]

OpLen ==
  /\ \E s \in {CacheState} : SetCache(s)
  /\ op' = [NoOp EXCEPT !.name = "Len", !.ret = CacheLen(CacheState)]

OpClear ==
  /\ \E order \in Orders(cache) : \E s \in {Clear(CacheState, order)} : SetCache(s)
  /\ op' = [NoOp EXCEPT !.name = "Clear"]

\* The cache the Group's specification carries along, untouched.
CacheIdle ==
  /\ MaxEntries = 0 /\ OnEvicted = FALSE /\ isNil = TRUE
  /\ ll = << >> /\ cache = << >> /\ elems = [e \in ElemIds |-> NoEntry]
  /\ evicted = << >> /\ removed = << >>
  /\ touch = [k \in CKeys |-> 0] /\ op = NoOp

\* ======================================================== specifications
Init == GroupInit /\ CacheIdle

\* The goroutines' steps; the cache is not involved.
Next ==
  \/ \E p \in Procs, k \in Keys : Invoke(p, k) /\ UNCHANGED cvars
  \/ \E p \in Procs : Lock(p) /\ UNCHANGED cvars
  \/ \E p \in Procs : LookupHit(p) /\ UNCHANGED cvars
  \/ \E p \in Procs : Register(p) /\ UNCHANGED cvars
  \/ \E p \in Procs, res \in FnResults : FnReturn(p, res) /\ UNCHANGED cvars
  \/ \E p \in Procs : StoreVal(p) /\ UNCHANGED cvars
  \/ \E p \in Procs : StoreErr(p) /\ UNCHANGED cvars
  \/ \E p \in Procs : WgDone(p) /\ UNCHANGED cvars
  \/ \E p \in Procs : Lock2(p) /\ UNCHANGED cvars
  \/ \E p \in Procs : DeleteUnlock(p) /\ UNCHANGED cvars
  \/ \E p \in Procs : ReturnExec(p) /\ UNCHANGED cvars
  \/ \E p \in Procs : WgWait(p) /\ UNCHANGED cvars
  \/ \E p \in Procs : ReturnWait(p) /\ UNCHANGED cvars

Spec == Init /\ [][Next]_vars

InitCache == CacheInit /\ GroupInit

\* The public operations of one cache, called one after the other (the cache
\* is not safe for concurrent access).
NextCache ==
  \/ \E k \in CKeys, v \in CVals : OpAdd(k, v) /\ UNCHANGED gvars
  \/ \E k \in CKeys : OpGet(k) /\ UNCHANGED gvars
  \/ \E k \in CKeys : OpRemove(k) /\ UNCHANGED gvars
  \/ OpRemoveOldest /\ UNCHANGED gvars
  \/ OpLen /\ UNCHANGED gvars
  \/ OpClear /\ UNCHANGED gvars

SpecCache == InitCache /\ [][NextCache]_vars

\* Fair scheduling of the goroutines: a goroutine that can take a step
\* eventually takes it, every fn that was called eventually returns, and a
\* goroutine blocked in Lock gets the mutex if it is free again and again
\* (sync.Mutex hands the lock to starving waiters).
ProcStep(p) ==
  /\ \/ LookupHit(p) \/ Register(p)
     \/ \E res \in FnResults : FnReturn(p, res)
     \/ StoreVal(p) \/ StoreErr(p) \/ WgDone(p) \/ DeleteUnlock(p)
     \/ ReturnExec(p) \/ WgWait(p) \/ ReturnWait(p)
  /\ UNCHANGED cvars

LockStep(p) == (Lock(p) \/ Lock2(p)) /\ UNCHANGED cvars

\* The same steps, for behaviours of at most MaxDoFair Do calls.
NextFair ==
  \/ \E p \in Procs, k \in Keys : nDo < MaxDoFair /\ Invoke(p, k) /\ UNCHANGED cvars
  \/ \E p \in Procs : Lock(p) /\ UNCHANGED cvars
  \/ \E p \in Procs : LookupHit(p) /\ UNCHANGED cvars
  \/ \E p \in Procs : Register(p) /\ UNCHANGED cvars
  \/ \E p \in Procs, res \in FnResults : FnReturn(p, res) /\ UNCHANGED cvars
  \/ \E p \in Procs : StoreVal(p) /\ UNCHANGED cvars
  \/ \E p \in Procs : StoreErr(p) /\ UNCHANGED cvars
  \/ \E p \in Procs : WgDone(p) /\ UNCHANGED cvars
  \/ \E p \in Procs : Lock2(p) /\ UNCHANGED cvars
  \/ \E p \in Procs : DeleteUnlock(p) /\ UNCHANGED cvars
  \/ \E p \in Procs : ReturnExec(p) /\ UNCHANGED cvars
  \/ \E p \in Procs : WgWait(p) /\ UNCHANGED cvars
  \/ \E p \in Procs : ReturnWait(p) /\ UNCHANGED cvars

FairSpec ==
  /\ Init
  /\ [][NextFair]_vars
  /\ \A p \in Procs : WF_vars(ProcStep(p)) /\ SF_vars(LockStep(p))

TypeOK ==
  /\ mu \in {Unlocked} \cup Procs
  /\ nCalls \in 0..MaxDo
  /\ DOMAIN m \subseteq Keys
  /\ \A k \in DOMAIN m : m[k] \in 1..nCalls
  /\ \A k \in CKeys : touch[k] \in 0..NumCKeys

\* ================================================================ claims
\* The goroutine's Do call has returned (its results are in hist).
Returned(p) == pc[p] = "idle" /\ hist[p].returned

\* The goroutines whose fn for key k is in flight: called, not yet returned.
FnInFlight(k) == {p \in Procs : pc[p] = "fn" /\ key[p] = k}

\* The fn executions started so far for key k (one per call record).
FnRuns(k) == {r \in 1..nCalls : callHist[r].key = k /\ callHist[r].fnStarted}

\* C1: for every key, in every reachable state, at most one execution of fn
\* for that key is in flight, whatever the callers and their interleaving.
C1_OneFnInFlightPerKey ==
  \A k \in Keys : Cardinality(FnInFlight(k)) <= 1

\* C1 witness: an fn is in flight for a key while another caller of the same
\* key waits on it and a third one has been invoked for it.
C1_Witness ==
  \E k \in Keys, q, w \in Procs :
    /\ FnInFlight(k) # {}
    /\ key[q] = k /\ pc[q] = "wait"
    /\ key[w] = k /\ pc[w] = "lock"

\* C2 as stated: any two Do calls with the same key that overlap in time
\* (each invoked before the other returned) share one fn execution and return
\* the same pair.
C2_Original ==
  \A p, q \in Procs :
    (/\ p # q /\ Returned(p) /\ Returned(q) /\ key[p] = key[q]
     /\ p \in hist[q].ov /\ q \in hist[p].ov)
    => (c[p] = c[q] /\ hist[p].ret = hist[q].ret /\ hist[p].nfn + hist[q].nfn = 1)

\* C2 amended: a Do call that looks the key up (line 55) while an executor's
\* record for that key is registered (after its line 65, before its line 72)
\* runs no fn, uses the executor's record and returns the pair the executor
\* returns; that executor ran fn exactly once.
C2_CoalescedWhileRegistered ==
  \A p, q \in Procs :
    (p # q /\ p \in hist[q].during)
    => /\ c[q] = c[p]
       /\ hist[q].nfn = 0
       /\ hist[p].nfn = 1
       /\ (Returned(p) /\ Returned(q)) => hist[q].ret = hist[p].ret

\* C2 witness: an executor and two callers that looked the key up while its
\* record was registered have all returned.
C2_Witness ==
  \E p, q, w \in Procs :
    /\ q # w /\ p \in hist[q].during /\ p \in hist[w].during
    /\ Returned(p) /\ Returned(q) /\ Returned(w)

\* C3: a waiter gets past the barrier only after the executor's fn returned
\* and both result fields were stored; what any caller returns is the pair fn
\* returned; each result field is written once, before the barrier is
\* signalled, and never after.
C3_WaitersSeeStoredResult ==
  /\ \A r \in 1..nCalls :
       /\ callHist[r].nval <= 1 /\ callHist[r].nerr <= 1
       /\ ~callHist[r].lateWrite
       /\ callHist[r].signalled =>
            /\ callHist[r].fnReturned
            /\ callHist[r].nval = 1 /\ callHist[r].nerr = 1
            /\ calls[r].val = callHist[r].fnRes.val
            /\ calls[r].err = callHist[r].fnRes.err
  /\ \A p \in Procs :
       (hist[p].nfn = 0 /\ (pc[p] = "waitret" \/ Returned(p)))
       => callHist[c[p]].signalled
  /\ \A p \in Procs :
       Returned(p) => hist[p].ret = callHist[c[p]].fnRes

\* C3 witness: a waiter has returned the executor's result while the executor
\* itself has not yet returned.
C3_Witness ==
  \E p, q \in Procs :
    /\ Returned(q) /\ hist[q].nfn = 0
    /\ c[p] = c[q] /\ hist[p].nfn = 1 /\ pc[p] \in {"lock2", "delete", "ret"}

\* C7 as stated: a caller finds a record only while its fn is in flight, so
\* no Do call uses an fn execution that had returned before it was invoked.
C7_Original ==
  \A p \in Procs : c[p] # NoCall => c[p] \notin hist[p].doneAtInv

\* C7 amended: a record stays registered until the executor's delete (line
\* 72), also after fn returned; no Do call uses an execution whose record the
\* executor had already deleted before that Do call was invoked, and the
\* mapping never holds a deleted record.
C7_NoResultAfterRemoval ==
  /\ \A p \in Procs : c[p] # NoCall => c[p] \notin hist[p].removedAtInv
  /\ \A k \in DOMAIN m : ~callHist[m[k]].removed

\* C7 witness: a caller invoked after an execution's record was deleted has
\* returned, and so has a caller that was invoked after an fn had returned
\* and still used that execution.
C7_Witness ==
  /\ \E p \in Procs : Returned(p) /\ hist[p].removedAtInv # {}
  /\ \E q \in Procs : Returned(q) /\ c[q] \in hist[q].doneAtInv

\* C8: a Do call that overlaps no other Do call for its key runs its own fn
\* exactly once and returns that fn's result; a key whose Do calls never
\* overlapped has had as many fn executions as completed Do calls.
C8_PostCompletionIndependence ==
  /\ \A p \in Procs :
       (Returned(p) /\ hist[p].ov = {})
       => /\ hist[p].nfn = 1
          /\ hist[p].ret = callHist[c[p]].fnRes
  /\ \A k \in Keys :
       (~keyHist[k].overlapped /\ \A p \in Procs : key[p] = k => pc[p] = "idle")
       => Cardinality(FnRuns(k)) = keyHist[k].doCount

\* C8 witness: three Do calls for one key, none overlapping another, have
\* all returned.
C8_Witness ==
  \E k \in Keys :
    /\ keyHist[k].doCount = 3 /\ ~keyHist[k].overlapped
    /\ \A p \in Procs : pc[p] = "idle"

\* C9: when fn returns an error, the executor and every caller coalesced
\* onto that execution return that error, none of them runs fn again, and
\* after the executor's delete the record is gone: the mapping does not hold
\* it and a Do invoked afterwards does not get it (fn runs again).
C9_ErrorSharedNotMemoized ==
  /\ \A p \in Procs :
       (Returned(p) /\ callHist[c[p]].fnRes.err # NoErr)
       => /\ hist[p].ret.err = callHist[c[p]].fnRes.err
          /\ hist[p].ret.val = callHist[c[p]].fnRes.val
          /\ hist[p].nfn <= 1
  /\ \A r \in 1..nCalls :
       (callHist[r].removed /\ callHist[r].fnRes.err # NoErr)
       => /\ \A k \in DOMAIN m : m[k] # r
          /\ \A p \in Procs : r \in hist[p].removedAtInv => c[p] # r

\* C9 witness: an executor and a waiter have returned the same error, and a
\* later Do for that key has run fn again.
C9_Witness ==
  \E p, q, w \in Procs :
    /\ p # q /\ c[p] = c[q] /\ Returned(p) /\ Returned(q)
    /\ hist[p].ret.err = ErrFn /\ hist[q].ret.err = ErrFn
    /\ key[w] = key[p] /\ c[p] \in hist[w].removedAtInv /\ hist[w].nfn = 1

\* C10: under fair scheduling, with every fn returning, every Do call
\* returns, and whenever no Do call is in progress the mapping is empty.
C10_DoTerminates ==
  /\ \A p \in Procs : (pc[p] # "idle") ~> (pc[p] = "idle")
  /\ []((\A p \in Procs : pc[p] = "idle") => DOMAIN m = {})

\* C10 witness: after an executor and a waiter of one key have returned,
\* nobody is inside Do and the mapping is empty.
C10_Witness ==
  /\ nDo = MaxDoFair
  /\ \A p \in Procs : pc[p] = "idle"
  /\ \E p \in Procs : hist[p].returned /\ hist[p].nfn = 0
  /\ DOMAIN m = {}

\* ---------------------------------------------------------------- cache
\* C4 as stated: Remove(key) of a present key takes the entry out of the
\* mapping and of the list and does not invoke OnEvicted.
C4_Original ==
  (op.name = "Remove" /\ removed # << >>)
  => /\ op.key \notin DOMAIN cache
     /\ \A i \in DOMAIN ll : elems[ll[i]].key # op.key
     /\ evicted = << >>

\* C4 amended: Remove(key) of a present key takes that one entry out of the
\* mapping and of the list and, when OnEvicted is configured, invokes it
\* exactly once with that entry's key and value; OnEvicted is invoked only
\* by Add (capacity eviction), RemoveOldest, Remove and Clear.
C4_RemoveNotifies ==
  /\ (op.name = "Remove" /\ removed # << >>)
     => /\ op.key \notin DOMAIN cache
        /\ \A i \in DOMAIN ll : elems[ll[i]].key # op.key
        /\ Len(removed) = 1 /\ removed[1].key = op.key
        /\ evicted = IF OnEvicted
                       THEN <<[key |-> removed[1].key, value |-> removed[1].value]>>
                       ELSE << >>
  /\ evicted # << >> => op.name \in {"Add", "RemoveOldest", "Remove", "Clear"}
  /\ (op.name = "Remove" /\ removed = << >>) => evicted = << >>

\* C4 witness: Remove has just taken a present key out of a cache with an
\* OnEvicted callback and other entries.
C4_Witness ==
  op.name = "Remove" /\ removed # << >> /\ OnEvicted /\ Len(ll) >= 1

\* C5: with MaxEntries > 0, after every public operation the number of
\* entries (in the list, in the mapping, and as Len() reports it) is at most
\* MaxEntries.
C5_LenAtMostMaxEntries ==
  MaxEntries > 0
  => /\ CacheLen(CacheState) <= MaxEntries
     /\ Len(ll) <= MaxEntries
     /\ Cardinality(DOMAIN cache) <= MaxEntries

\* C5 witness: an Add to a full cache has just evicted an entry.
C5_Witness ==
  /\ MaxEntries > 0 /\ op.name = "Add" /\ removed # << >>
  /\ Len(ll) = MaxEntries /\ MaxEntries >= 2

\* C6: the entry taken out by Add's capacity eviction or by RemoveOldest is
\* the least recently used one: when it was taken out, its last touch
\* (insertion, update by Add, or hit by Get) was the oldest of all the
\* entries present, and every entry touched after it is still there.
C6_EvictsLeastRecentlyUsed ==
  (op.name \in {"Add", "RemoveOldest"} /\ removed # << >>)
  => /\ Len(removed) = 1
     /\ removed[1].touch = 1
     /\ {touch[k] : k \in DOMAIN cache} = 1..Len(ll)

\* C6 witness: an Add has evicted an entry from a cache of two or more
\* entries, or RemoveOldest has removed one of three.
C6_Witness ==
  /\ op.name \in {"Add", "RemoveOldest"} /\ removed # << >>
  /\ Len(ll) >= 2

\* ---------------------------------------------------------------- group
\* C11: the mutex is never held while fn executes: no goroutine inside fn (or
\* storing its result, signalling, waiting or returning) holds it, and in a
\* state where some fn is running it is free or held by a goroutine at the
\* map bookkeeping of lines 49-66 or 72-73, which releases it in one step
\* whatever the fn does.
C11_LockNotHeldAcrossFn ==
  /\ \A p \in Procs :
       pc[p] \notin {"lookup", "delete"} => mu # p
  /\ (\E p \in Procs : pc[p] = "fn")
     => \/ mu = Unlocked
        \/ /\ mu \in Procs
           /\ pc[mu] \in {"lookup", "delete"}
           /\ pc[mu] = "lookup" => ENABLED (LookupHit(mu) \/ Register(mu))
           /\ pc[mu] = "delete" => ENABLED DeleteUnlock(mu)

\* C11 witness: while the fn of one key is still in flight, a Do call for
\* another key that registered after it has run its own fn and returned.
C11_Witness ==
  \E p, q \in Procs :
    /\ pc[p] = "fn"
    /\ key[q] # key[p] /\ Returned(q) /\ hist[q].nfn = 1
    /\ c[q] > c[p]

\* Caller q of the executor p's key cannot get past p's barrier: it is on its
\* way to the lookup of line 55 or waits at line 59 on p's record.
BlockedOn(p, q) ==
  /\ q # p /\ key[q] = key[p]
  /\ \/ pc[q] \in {"lock", "lookup"}
     \/ pc[q] = "wait" /\ c[q] = c[p]

\* C12: as long as the executor's fn for a key has not returned, the
\* executor's record stays in the mapping with its barrier closed, no other
\* fn for that key is started, and a Do call for that key invoked meanwhile
\* stays blocked (before the lookup, or on the barrier) at every step; so if
\* fn never returns, none of them ever returns.
C12_HungFnBlocksKey ==
  /\ [](\A p \in Procs :
          pc[p] = "fn" => /\ key[p] \in DOMAIN m /\ m[key[p]] = c[p]
                          /\ calls[c[p]].wg = 1)
  /\ [][\A p \in Procs :
          (pc[p] = "fn" /\ pc'[p] = "fn")
          => /\ key[p] \in DOMAIN m' /\ m'[key[p]] = c[p]
             /\ calls'[c[p]].wg = 1
             /\ FnRuns(key[p])' = FnRuns(key[p])
             /\ \A q \in Procs \ {p} :
                  /\ ~(key'[q] = key[p] /\ pc'[q] = "fn")
                  /\ (pc[q] = "idle" /\ pc'[q] # "idle" /\ key'[q] = key[p])
                     => BlockedOn(p, q)'
                  /\ BlockedOn(p, q) => BlockedOn(p, q)']_vars

\* C12 witness: an fn is in flight and the two other goroutines, callers of
\* the same key, both wait on its record's barrier.
C12_Witness ==
  \E p \in Procs :
    /\ pc[p] = "fn"
    /\ \A q \in Procs \ {p} : pc[q] = "wait" /\ c[q] = c[p] /\ key[q] = key[p]

\* The goroutines that own the record registered for key k: they created it
\* (ran fn for it) and have not yet passed the delete of line 72.
Owners(k) ==
  {p \in Procs : /\ key[p] = k /\ c[p] = m[k] /\ hist[p].nfn = 1
                 /\ pc[p] \in {"fn", "storeval", "storeerr", "done", "lock2", "delete"}}

\* C18: life cycle of the call records. The mapping holds at most one record
\* per key, each owned by exactly one executor that is still inside Do and
\* no record under two keys; a key with no Do call in progress is absent. A
\* key enters the mapping only by the step of a caller that holds the mutex
\* and found it absent, with a new record, and that caller then runs fn; it
\* leaves only by the delete of that executor, after its fn returned; in
\* between its record is never replaced.
C18_CallRecordLifecycle ==
  /\ [](/\ \A k \in DOMAIN m :
             /\ Cardinality(Owners(k)) = 1
             /\ callHist[m[k]].key = k /\ ~callHist[m[k]].removed
        /\ \A k1, k2 \in DOMAIN m : k1 # k2 => m[k1] # m[k2]
        /\ \A k \in Keys :
             (\A p \in Procs : pc[p] # "idle" => key[p] # k) => k \notin DOMAIN m)
  /\ [][\A k \in Keys :
          /\ (k \notin DOMAIN m /\ k \in DOMAIN m')
             => \E p \in Procs :
                  /\ pc[p] = "lookup" /\ mu = p /\ key[p] = k
                  /\ pc'[p] = "fn" /\ c'[p] = m'[k] /\ m'[k] = nCalls + 1
          /\ (k \in DOMAIN m /\ k \notin DOMAIN m')
             => \E p \in Procs :
                  /\ pc[p] = "delete" /\ mu = p /\ key[p] = k
                  /\ Owners(k) = {p} /\ callHist[m[k]].fnReturned
          /\ (k \in DOMAIN m /\ k \in DOMAIN m') => m'[k] = m[k]]_vars

\* C18 witness: a key whose record was registered and deleted twice is
\* absent again with no Do call for it in progress, while the other key's
\* record is registered.
C18_Witness ==
  \E k \in Keys :
    /\ Cardinality({r \in 1..nCalls : callHist[r].key = k /\ callHist[r].removed}) = 2
    /\ \A p \in Procs : pc[p] # "idle" => key[p] # k
    /\ k \notin DOMAIN m
    /\ DOMAIN m # {}

\* ---------------------------------------------------------------- cache
\* C13: round trip: in any cache built by New with any maxEntries and any
\* sequence of operations, Add(key, value) immediately followed by Get(key)
\* returns (value, true).
C13_RoundTrip ==
  [][(op.name = "Add" /\ op'.name = "Get" /\ op'.key = op.key)
     => (op'.ok /\ op'.ret = op.value)]_vars

\* The entries the cache holds.
Entries == {elems[cache[k]] : k \in DOMAIN cache}

\* Line 76 in the state before an Add of an absent key: one more entry
\* exceeds a non-zero MaxEntries.
Overflows == MaxEntries # 0 /\ Cardinality(DOMAIN cache) + 1 > MaxEntries

\* C14: update in place: Add(key, value) on a present key replaces its value,
\* moves it to the most recently used position, leaves Len() and the mapped
\* keys unchanged, takes nothing out, invokes no OnEvicted, and leaves the
\* values and the relative recency order of all other entries unchanged.
C14_UpdateInPlace ==
  [][(op'.name = "Add" /\ ~isNil /\ op'.key \in DOMAIN cache)
     => LET k == op'.key
            e == cache[k] IN
          /\ op'.ok
          /\ GetResult(CacheState', k) = [value |-> op'.value, ok |-> TRUE]
          /\ ll'[1] = e /\ touch'[k] = Len(ll')
          /\ CacheLen(CacheState') = CacheLen(CacheState)
          /\ DOMAIN cache' = DOMAIN cache
          /\ removed' = << >> /\ evicted' = << >>
          /\ \A x \in DOMAIN cache \ {k} :
               /\ cache'[x] = cache[x]
               /\ elems'[cache'[x]] = elems[cache[x]]
          /\ SelectSeq(ll', LAMBDA x : x # e) = SelectSeq(ll, LAMBDA x : x # e)
          /\ \A x, y \in DOMAIN cache \ {k} :
               (touch[x] < touch[y]) <=> (touch'[x] < touch'[y])]_vars

\* C14 witness: Add has just updated a key of a full cache of two entries.
C14_Witness ==
  /\ op.name = "Add" /\ op.ok
  /\ MaxEntries = 2 /\ Len(ll) = 2 /\ elems[ll[1]] = [key |-> op.key, value |-> op.value]

\* C15: Get on an absent key returns the zero value and false and changes
\* nothing (Len(), the entries, their values, their order; no callback); Get
\* on a present key returns its value and true, moves that key to the front
\* and changes nothing else (same keys, same values, same Len(), the other
\* entries in the same relative order, no callback).
C15_GetFrame ==
  [][op'.name = "Get"
     => LET k == op'.key IN
          /\ removed' = << >> /\ evicted' = << >>
          /\ CacheLen(CacheState') = CacheLen(CacheState)
          /\ cache' = cache /\ elems' = elems /\ isNil' = isNil
          /\ MaxEntries' = MaxEntries /\ OnEvicted' = OnEvicted
          /\ IF ~isNil /\ k \in DOMAIN cache
               THEN /\ op'.ok /\ op'.ret = elems[cache[k]].value
                    /\ ll'[1] = cache[k] /\ touch'[k] = Len(ll')
                    /\ SelectSeq(ll', LAMBDA x : x # cache[k])
                         = SelectSeq(ll, LAMBDA x : x # cache[k])
                    /\ \A x, y \in DOMAIN cache \ {k} :
                         (touch[x] < touch[y]) <=> (touch'[x] < touch'[y])
               ELSE /\ ~op'.ok /\ op'.ret = 0
                    /\ ll' = ll /\ touch' = touch]_vars

\* C15 witness: Get has just missed on a cache of two entries.
C15_Witness ==
  op.name = "Get" /\ ~op.ok /\ ~isNil /\ Len(ll) = 2

\* C16: Clear() on a cache of n entries invokes OnEvicted, when configured,
\* exactly n times, once for each entry with its key and current value (in
\* any order), and not at all otherwise; afterwards Len() is 0 and Get of
\* every key misses.
C16_ClearNotifiesAll ==
  [][op'.name = "Clear"
     => /\ IF OnEvicted
             THEN /\ Len(evicted') = Cardinality(DOMAIN cache)
                  /\ {evicted'[i] : i \in DOMAIN evicted'} = Entries
                  /\ \A k \in DOMAIN cache :
                       Cardinality({i \in DOMAIN evicted' :
                         evicted'[i] = [key |-> k, value |-> elems[cache[k]].value]}) = 1
             ELSE evicted' = << >>
        /\ CacheLen(CacheState') = 0
        /\ \A k \in CKeys : GetResult(CacheState', k) = [value |-> 0, ok |-> FALSE]]_vars

\* C16 witness: Clear has just reported three entries to OnEvicted.
C16_Witness ==
  op.name = "Clear" /\ OnEvicted /\ Len(evicted) = 3 /\ isNil

\* C17: after every public operation the mapping and the list correspond one
\* to one: no key (and no element) is twice in the list, the mapped keys are
\* the keys in the list, each mapped element is in the list and holds its
\* key, and Len() is the number of mapped keys.
C17_MapListCorrespondence ==
  /\ \A i, j \in DOMAIN ll :
       i # j => (ll[i] # ll[j] /\ elems[ll[i]].key # elems[ll[j]].key)
  /\ DOMAIN cache = {elems[ll[i]].key : i \in DOMAIN ll}
  /\ \A k \in DOMAIN cache :
       /\ \E i \in DOMAIN ll : ll[i] = cache[k]
       /\ elems[cache[k]].key = k
  /\ CacheLen(CacheState) = Cardinality(DOMAIN cache)
  /\ isNil => (ll = << >> /\ cache = << >>)

\* C17 witness: Remove has just taken the entry in the middle of a list of
\* three out.
C17_Witness ==
  /\ op.name = "Remove" /\ Len(removed) = 1 /\ removed[1].touch = 2
  /\ Len(ll) = 2

\* C19: an Add of a new key that makes the number of entries exceed a
\* non-zero MaxEntries takes exactly one entry out and, when OnEvicted is
\* configured, invokes it exactly once within that Add with that entry's key
\* and latest stored value; any other Add (of a present key, without
\* overflow, or with MaxEntries 0) takes nothing out and invokes nothing.
C19_OneEvictionPerOverflow ==
  [][op'.name = "Add"
     => LET k == op'.key IN
          IF ~op'.ok /\ Overflows
            THEN /\ Len(removed') = 1
                 /\ LET r == removed'[1] IN
                      /\ r.key \notin DOMAIN cache'
                      /\ r.value = IF r.key = k THEN op'.value
                                   ELSE elems[cache[r.key]].value
                      /\ evicted' = IF OnEvicted
                                      THEN <<[key |-> r.key, value |-> r.value]>>
                                      ELSE << >>
                      /\ DOMAIN cache' = (DOMAIN cache \cup {k}) \ {r.key}
            ELSE /\ removed' = << >> /\ evicted' = << >>
                 /\ DOMAIN cache' = DOMAIN cache \cup {k}]_vars

\* C19 witness: an Add of a new key to a full cache of two entries has just
\* reported the evicted entry, whose value an earlier Add had replaced by 2.
C19_Witness ==
  /\ op.name = "Add" /\ ~op.ok /\ MaxEntries = 2 /\ OnEvicted
  /\ Len(evicted) = 1 /\ evicted[1].value = 2 /\ Len(ll) = 2

\* C20: on a nil cache (zero value, or just cleared) Len() returns 0, Get
\* returns the zero value and false, and Get, Remove, RemoveOldest, Clear and
\* Len leave it nil and invoke no callback; Add makes it non-nil and leaves
\* it exactly as the same Add leaves a fresh cache with the same MaxEntries
\* and OnEvicted: the entry is stored as the only one (unless MaxEntries is
\* negative, when the capacity test of that Add evicts it, as on a fresh
\* cache).
C20_NilCacheIsEmptyCache ==
  [][isNil
     => /\ MaxEntries' = MaxEntries /\ OnEvicted' = OnEvicted
        /\ op'.name \in {"Get", "Remove", "RemoveOldest", "Clear", "Len"}
           => /\ isNil' /\ ll' = ll /\ cache' = cache /\ elems' = elems
              /\ removed' = << >> /\ evicted' = << >>
              /\ ~op'.ok /\ op'.ret = 0
        /\ op'.name = "Add"
           => \E f \in {Add(New(MaxEntries, OnEvicted, FALSE), op'.key, op'.value)} :
                /\ ~isNil' /\ ~op'.ok
                /\ ll' = f.ll /\ cache' = f.cache /\ elems' = f.elems
                /\ touch' = f.touch
                /\ removed' = f.removed /\ evicted' = f.evicted
                /\ IF MaxEntries >= 0
                     THEN /\ removed' = << >>
                          /\ Entries' = {[key |-> op'.key, value |-> op'.value]}
                          /\ CacheLen(CacheState') = 1
                     ELSE /\ Entries' = {}
                          /\ Len(removed') = 1 /\ removed'[1].key = op'.key]_vars

\* C20 witness: Remove has just been called on a nil cache that has an
\* OnEvicted callback and a capacity of two.
C20_Witness ==
  isNil /\ op.name = "Remove" /\ OnEvicted /\ MaxEntries = 2
====
